---- MODULE Spec2Model ----
(***************************************************************************)
(* MDICI dashboard: the export's derived fields (export_to_csv.py), under  *)
(* Spec, and the filter pipelines of the two dashboards (streamlit_app.py  *)
(* and streamlit_app_complete.py), under SpecDash.                         *)
(*                                                                         *)
(* Dates are day numbers counted from 1900-01-01 (day 0, a Monday), so     *)
(* Python's date.weekday() is d % 7 and Friday is 4.  A nullable value is  *)
(* a record [k, v]: k = "int" or "date" carries v, k = "none" is Python's *)
(* None / SQL NULL / NaT, k = "nan" is the float NaN pandas stores in a    *)
(* numeric column.                                                         *)
(***************************************************************************)
EXTENDS Integers, Sequences, FiniteSets, TLC

VARIABLES
    db,             \* export: the rows of dbo.defects
    today,          \* date.today() / datetime.now().date()
    exported,       \* export: the table export_all_data returns
    pc,             \* export: "start" or "exported"; dashboard: "dash"
    df,             \* dashboard: the table load_project_data returned
    w,              \* dashboard: the values of the text inputs and selectboxes
    ms,             \* dashboard: the Project States multiselect (default, value)
    ss,             \* dashboard: st.session_state
    filtered_df,    \* dashboard: the rows of the result table, as indices of df
    raised,         \* dashboard: the exception that ended the last run, or "none"
    applied,        \* dashboard: the preset flags the last run read
    edits,          \* dashboard: the number of user interactions so far
    columns,        \* dashboard: the columns of the loaded table
    csv,            \* the CSV files on disk, by path
    page,           \* dashboard: what one run of main put on the page
    deploy          \* auto_deploy.py: the disk, the repository and the steps run

exportVars == <<db, today, exported, pc, csv, deploy>>

dashVars == <<df, w, ms, ss, filtered_df, raised, applied, edits, columns, page>>

vars ==
    <<db, today, exported, pc, df, w, ms, ss, filtered_df, raised, applied, edits,
      columns, csv, page, deploy>>

-----------------------------------------------------------------------------
(* Values *)

NoneV == [k |-> "none", v |-> 0]

NaN == [k |-> "nan", v |-> 0]

IntV(n) == [k |-> "int", v |-> n]

DateV(d) == [k |-> "date", v |-> d]

\* pd.isna / pd.notna
isna(x) == x.k \in {"none", "nan"}

notna(x) == ~isna(x)

-----------------------------------------------------------------------------
(* Bounds of the model *)

\* the largest table the export is run on
MaxRows == 2

\* the first real kickoff date of the model: 2025-01-01, a Wednesday
FirstDay == 45656

\* the number of consecutive real kickoff dates
DaySpan == 9

\* the placeholder kickoff date '1900-01-01'
Sentinel == 0

LastDay == FirstDay + DaySpan - 1

RealDays == FirstDay .. LastDay

\* the days the export is run on: one before the last kickoff (negative
\* elapsed days) and one 14 to 22 days after the kickoffs
Todays == {LastDay - 1, FirstDay + 22}

States ==
    {"Design", "Firewall", "Testing", "Intake", "Hold", "Complete", "Security",
     "Cancelled"}

Row(s, k, t, g) ==
    [ProjectState |-> s, KickOffDate |-> k, TestingInfoSent |-> t,
     ActualGoLiveDate |-> g]

\* rows of dbo.defects: every state with a null, placeholder or real kickoff;
\* Design and Testing rows over every real kickoff date; rows with milestones
Rows ==
    {Row(s, k, NoneV, NoneV) :
        s \in States, k \in {NoneV, DateV(Sentinel), DateV(FirstDay)}}
    \cup {Row(s, DateV(d), NoneV, NoneV) : s \in {"Design", "Testing"}, d \in RealDays}
    \cup {Row("Complete", k, t, g) :
            k \in {NoneV, DateV(Sentinel), DateV(FirstDay + 4)},
            t \in {NoneV, DateV(FirstDay + 2), DateV(FirstDay + 20)},
            g \in {NoneV, DateV(FirstDay + 30)}}

Tables == UNION {[1 .. n -> Rows] : n \in 1 .. MaxRows}

-----------------------------------------------------------------------------
(* export_to_csv.py *)

Weekday(d) == d % 7

RECURSIVE third_friday_loop(_, _)
third_friday_loop(current_date, friday_count) ==
    IF friday_count < 3
    THEN LET next == current_date + 1
         IN third_friday_loop(next,
                IF Weekday(next) = 4 THEN friday_count + 1 ELSE friday_count)
    ELSE current_date

\* mutant: the kickoff day itself is counted when it is a Friday
calculate_third_friday_inclusive(kick_off_date) ==
    IF isna(kick_off_date) THEN NoneV
    ELSE DateV(third_friday_loop(kick_off_date.v - 1, 0))

calculate_third_friday(kick_off_date) ==
    IF isna(kick_off_date) THEN NoneV
    ELSE DateV(third_friday_loop(kick_off_date.v, 0))

\* the lambda of df['Days Since Kickoff']
days_since_kickoff(x, day) ==
    IF notna(x) THEN IntV(day - x.v) ELSE NoneV

\* Series.apply / DataFrame.apply build the result column from the returned
\* scalars: integers mixed with None become a float column holding NaN, a
\* column of None alone stays an object column of None
infer_column(col) ==
    IF (\E i \in DOMAIN col : col[i].k = "int")
    THEN [i \in DOMAIN col |-> IF col[i].k = "none" THEN NaN ELSE col[i]]
    ELSE col

\* Python's days <= n: False when days is NaN
le(days, n) == days.k = "int" /\ days.v <= n

\* mutant: the On Track boundary is exclusive
get_status_exclusive(project_state, days) ==
    IF project_state = "Design"
    THEN IF days = NoneV THEN "No Kickoff Date"
         ELSE IF days.k = "int" /\ days.v < 14 THEN "On Track"
         ELSE IF le(days, 21) THEN "Attention Needed"
         ELSE "Overdue"
    ELSE IF project_state = "Firewall" THEN "Waiting for Firewall"
    ELSE IF project_state = "Testing" THEN "Pending Updates from Site"
    ELSE IF project_state = "Intake" THEN "In Intake Process"
    ELSE IF project_state = "Hold" THEN "On Hold"
    ELSE IF project_state \in {"Complete", "Security"} THEN "Completed"
    ELSE project_state

\* mutant: the SLA status is computed for every state that has a kickoff
get_status_all_states(project_state, days) ==
    IF days = NoneV
    THEN IF project_state = "Design" THEN "No Kickoff Date" ELSE project_state
    ELSE IF le(days, 14) THEN "On Track"
    ELSE IF le(days, 21) THEN "Attention Needed"
    ELSE "Overdue"

get_status(project_state, days) ==
    IF project_state = "Design"
    THEN IF days = NoneV THEN "No Kickoff Date"
         ELSE IF le(days, 14) THEN "On Track"
         ELSE IF le(days, 21) THEN "Attention Needed"
         ELSE "Overdue"
    ELSE IF project_state = "Firewall" THEN "Waiting for Firewall"
    ELSE IF project_state = "Testing" THEN "Pending Updates from Site"
    ELSE IF project_state = "Intake" THEN "In Intake Process"
    ELSE IF project_state = "Hold" THEN "On Hold"
    ELSE IF project_state \in {"Complete", "Security"} THEN "Completed"
    ELSE project_state

\* mutant: the state test is missing
days_until_sla_any_state(expected, project_state, day) ==
    IF notna(expected) THEN IntV(expected.v - day) ELSE NoneV

\* the lambda of df['Days Until SLA']
days_until_sla(expected, project_state, day) ==
    IF notna(expected) /\ project_state = "Design"
    THEN IntV(expected.v - day) ELSE NoneV

\* the lambdas of df['Days to Testing Info Sent'] and df['Days to Completion']
days_between(end, kickoff) ==
    IF notna(end) /\ notna(kickoff) THEN IntV(end.v - kickoff.v) ELSE NoneV

export_all_data(table, day) ==
    LET n == Len(table)
        since == infer_column([i \in 1 .. n |->
                    days_since_kickoff(table[i].KickOffDate, day)])
        expected == [i \in 1 .. n |-> calculate_third_friday(table[i].KickOffDate)]
        status == [i \in 1 .. n |-> get_status(table[i].ProjectState, since[i])]
        sla == infer_column([i \in 1 .. n |->
                    days_until_sla(expected[i], table[i].ProjectState, day)])
        testing == infer_column([i \in 1 .. n |->
                    days_between(table[i].TestingInfoSent, table[i].KickOffDate)])
        completion == infer_column([i \in 1 .. n |->
                    days_between(table[i].ActualGoLiveDate, table[i].KickOffDate)])
    IN [i \in 1 .. n |->
          [ProjectState |-> table[i].ProjectState,
           KickOffDate |-> table[i].KickOffDate,
           TestingInfoSent |-> table[i].TestingInfoSent,
           ActualGoLiveDate |-> table[i].ActualGoLiveDate,
           DaysSinceKickoff |-> since[i],
           ExpectedDECompletion |-> expected[i],
           Status |-> status[i],
           DaysUntilSLA |-> sla[i],
           DaysToTestingInfoSent |-> testing[i],
           DaysToCompletion |-> completion[i]]]

\* the dashboard is not running
DashIdle ==
    /\ df = <<>>
    /\ w = <<>>
    /\ ms = <<>>
    /\ ss = <<>>
    /\ filtered_df = <<>>
    /\ raised = "none"
    /\ applied = <<>>
    /\ edits = 0
    /\ columns = {}
    /\ page = <<>>

\* the paths load_project_data tries, in its order
possible_files ==
    <<"mdici_projects_latest.csv", "exported_data/mdici_projects_latest.csv">>

latest_projects == "exported_data/mdici_projects_latest.csv"

\* a path with no readable file
NoFile == [exists |-> FALSE, header |-> {}, rows |-> <<>>]

NoFiles == [path \in {possible_files[n] : n \in DOMAIN possible_files} |-> NoFile]

Init ==
    /\ deploy = <<>>
    /\ db \in Tables
    /\ today \in Todays
    /\ exported = <<>>
    /\ pc = "start"
    /\ csv = NoFiles
    /\ DashIdle

ExportAllData ==
    /\ pc = "start"
    /\ exported' = export_all_data(db, today)
    /\ pc' = "exported"
    /\ UNCHANGED <<deploy, db, today, csv>>
    /\ UNCHANGED dashVars

Next == ExportAllData

Spec == Init /\ [][Next]_vars

-----------------------------------------------------------------------------
(* Text: a string is a sequence of one-character strings *)

\* a missing text value (NaN after read_csv)
NullStr == [k |-> "nan", v |-> <<>>]

Str(s) == [k |-> "str", v |-> s]

\* str.lower on the characters the model uses
Lower(c) ==
    CASE c = "A" -> "a"
      [] c = "N" -> "n"
      [] OTHER -> c

Digit(n) ==
    CASE n = 0 -> "0" [] n = 1 -> "1" [] n = 2 -> "2" [] n = 3 -> "3"
      [] n = 4 -> "4" [] n = 5 -> "5" [] n = 6 -> "6" [] n = 7 -> "7"
      [] n = 8 -> "8" [] n = 9 -> "9"

\* str(n) of a non-negative integer
RECURSIVE int_to_str(_)
int_to_str(n) ==
    IF n < 10 THEN <<Digit(n)>> ELSE Append(int_to_str(n \div 10), Digit(n % 10))

\* Series.astype(str): a missing value becomes the text "nan"
astype_str(x) ==
    CASE x.k = "str" -> x.v
      [] x.k = "int" -> int_to_str(x.v)
      [] OTHER -> <<"n", "a", "n">>

\* re.compile(pat, re.IGNORECASE) succeeds; over the model's characters the
\* only invalid patterns are those with an unclosed "("
regex_compiles(pat) == \A i \in DOMAIN pat : pat[i] # "("

\* one pattern character against one text character under re.IGNORECASE:
\* "." matches any character, any other character matches itself
regex_char(pc0, tc) == pc0 = "." \/ Lower(pc0) = Lower(tc)

\* pat.search(text) is not None
regex_search(pat, text) ==
    \E o \in 0 .. (Len(text) - Len(pat)) :
        \A i \in 1 .. Len(pat) : regex_char(pat[i], text[o + i])

\* Series.astype(str).str.contains(pat, case=False, na=False) on one value
str_contains(x, pat) == regex_search(pat, astype_str(x))

-----------------------------------------------------------------------------
(* streamlit_app.py: the loaded table *)

\* the largest number of user interactions in one session
MaxEdits == 2

\* a missing Design Engineer (dropna() keeps it out of the options)
NoEngineer == "<NaN>"

\* the day the dashboard runs on
DashToday == FirstDay + 22

\* the sample projects of the South facility are Enterprise placeholders
DashRow(id, state, engineer, facility, line, asa, opw, comments, status, kickoff) ==
    [DefectID |-> IntV(id), ProjectState |-> state, DesignEngineer |-> engineer,
     Facility |-> facility, ServiceLine |-> line, ASAAssigned |-> asa,
     OPW |-> opw, Comments |-> comments, Status |-> status,
     KickOffDate |-> kickoff,
     ServiceArea |-> IF facility = "South" THEN "Enterprise" ELSE "West"]

\* rows of mdici_projects_latest.csv; Status is what get_status gives them
SampleRows ==
    << DashRow(11, "Design", "Ann", "North", "Lab",
               Str(<<"a", "/", " ", "N">>), Str(<<"a", "n">>), NullStr,
               "Overdue", DateV(DashToday - 22)),
       DashRow(12, "Firewall", "Bob", "South", "Lab",
               Str(<<"N">>), NullStr, NullStr,
               "Waiting for Firewall", DateV(DashToday - 14)),
       DashRow(21, "Design", NoEngineer, "North", "Imaging",
               NullStr, Str(<<"1", "a", "1">>), Str(<<"1", ".", "1">>),
               "On Track", DateV(DashToday + 3)),
       DashRow(2, "Complete", "Ann", "South", "Imaging",
               Str(<<"a">>), Str(<<"1", ".", "1">>), Str(<<"A">>),
               "Completed", DateV(Sentinel)),
       DashRow(1, "Design", "Bob", "North", "Lab",
               NullStr, Str(<<"N">>), NullStr,
               "Attention Needed", DateV(DashToday - 17)),
       DashRow(3, "Design", "Ann", "South", "Lab",
               NullStr, NullStr, NullStr,
               "No Kickoff Date", NoneV) >>

Min(S) == CHOOSE x \in S : \A y \in S : x <= y

RECURSIVE SortedSeq(_)
SortedSeq(S) == IF S = {} THEN <<>> ELSE <<Min(S)>> \o SortedSeq(S \ {Min(S)})

SubTable(I) == [n \in 1 .. Cardinality(I) |-> SampleRows[SortedSeq(I)[n]]]

\* the tables load_project_data can return: up to MaxRows rows of the file
DashTables ==
    {SubTable(I) : I \in {J \in SUBSET (1 .. Len(SampleRows)) :
                            Cardinality(J) \in 1 .. MaxRows}}

\* what the user can type into a search box
Searches ==
    { <<"a">>, <<"N">>, <<"1">>, <<"z">>, <<".">>, <<"(">>,
      <<"n", "a", "n">>, <<"1", ".", "1">>, <<"1", "(">> }

-----------------------------------------------------------------------------
(* streamlit_app.py: the widgets *)

All == "All"

AllStr == <<"A", "l", "l">>

\* str.split(sep)
RECURSIVE split(_, _)
split(str, sep) ==
    IF \E i \in DOMAIN str : str[i] = sep
    THEN LET i == Min({j \in DOMAIN str : str[j] = sep})
         IN <<SubSeq(str, 1, i - 1)>> \o split(SubSeq(str, i + 1, Len(str)), sep)
    ELSE <<str>>

\* str.strip()
RECURSIVE strip(_)
strip(str) ==
    IF str # <<>> /\ Head(str) = " " THEN strip(Tail(str))
    ELSE IF str # <<>> /\ str[Len(str)] = " " THEN strip(SubSeq(str, 1, Len(str) - 1))
    ELSE str

Range(f) == {f[i] : i \in DOMAIN f}

\* sorted(df['Project State'].unique()), as a set
project_states(table) == {table[i].ProjectState : i \in DOMAIN table}

\* Python's order of the state labels
StateOrder ==
    <<"Cancelled", "Complete", "Design", "Firewall", "Hold", "Intake",
      "Security", "Testing">>

\* project_states[0]
first_state(S) == StateOrder[Min({i \in DOMAIN StateOrder : StateOrder[i] \in S})]

facilities(table) == {All} \cup {table[i].Facility : i \in DOMAIN table}

service_lines(table) == {All} \cup {table[i].ServiceLine : i \in DOMAIN table}

engineers(table) ==
    {All} \cup ({table[i].DesignEngineer : i \in DOMAIN table} \ {NoEngineer})

asa_options(table) ==
    {AllStr} \cup
    {part \in UNION {{strip(x) : x \in Range(split(astype_str(table[i].ASAAssigned), "/"))} :
                        i \in {j \in DOMAIN table : notna(table[j].ASAAssigned)}} :
        part # <<>> /\ part # <<"n", "a", "n">>}

DefaultWidgets ==
    [defect_search |-> <<>>, opw_search |-> <<>>, ip_search |-> <<>>,
     facility |-> All, service_line |-> All, asa |-> AllStr, engineer |-> All]

\* st.session_state before the first run
EmptySession ==
    [has_selected_states |-> FALSE, selected_states |-> {},
     filter_critical |-> FALSE, filter_week_kickoffs |-> FALSE]

\* the multiselect before the first run
NoMultiselect == [exists |-> FALSE, default |-> {}, value |-> {}]

-----------------------------------------------------------------------------
(* CSV files: DataFrame.to_csv, pd.read_csv and pd.to_datetime.  A cell of  *)
(* a file is its text, a sequence of characters; a text that is not a       *)
(* number or a date is kept as one piece.  A number is [k = "int"] whether  *)
(* its column is int64 or float64: the floats of the export are integral.   *)

\* str(n)
format_number(n) == IF n < 0 THEN <<"-">> \o int_to_str(-n) ELSE int_to_str(n)

\* repr of an integral float64
format_float(n) == format_number(n) \o <<".", "0">>

\* the civil date of a day number (day 0 is 1900-01-01)
civil_from_days(day) ==
    LET z == day + 693901
        era == z \div 146097
        doe == z - era * 146097
        yoe == (doe - doe \div 1460 + doe \div 36524 - doe \div 146096) \div 365
        doy == doe - (365 * yoe + yoe \div 4 - yoe \div 100)
        mp == (5 * doy + 2) \div 153
        m == IF mp < 10 THEN mp + 3 ELSE mp - 9
    IN [y |-> yoe + era * 400 + (IF m <= 2 THEN 1 ELSE 0),
        m |-> m,
        d |-> doy - (153 * mp + 2) \div 5 + 1]

\* the day number of a civil date
days_from_civil(y, m, d) ==
    LET yy == IF m <= 2 THEN y - 1 ELSE y
        era == yy \div 400
        yoe == yy - era * 400
        mp == IF m > 2 THEN m - 3 ELSE m + 9
        doy == (153 * mp + 2) \div 5 + d - 1
        doe == yoe * 365 + yoe \div 4 - yoe \div 100 + doy
    IN era * 146097 + doe - 693901

\* n in decimal, padded with zeros to the width
RECURSIVE zero_pad(_, _)
zero_pad(n, width) ==
    IF width = 0 THEN <<>> ELSE Append(zero_pad(n \div 10, width - 1), Digit(n % 10))

\* a date, or a datetime64 column whose times are all midnight: YYYY-MM-DD
format_date(day) ==
    LET c == civil_from_days(day)
    IN zero_pad(c.y, 4) \o <<"-">> \o zero_pad(c.m, 2) \o <<"-">> \o zero_pad(c.d, 2)

the_column(table, c) == [i \in DOMAIN table |-> table[i][c]]

\* to_csv of one column: a numeric column that holds NaN is float64, a
\* missing value is written as the empty text
to_csv_column(col) ==
    LET float64 == \E i \in DOMAIN col : col[i].k = "nan"
    IN [i \in DOMAIN col |->
          CASE col[i].k = "int" ->
                  IF float64 THEN format_float(col[i].v) ELSE format_number(col[i].v)
            [] col[i].k = "date" -> format_date(col[i].v)
            [] col[i].k = "str" -> col[i].v
            [] OTHER -> <<>>]

\* DataFrame.to_csv(path, index=False)
to_csv(table, header) ==
    [exists |-> TRUE,
     header |-> header,
     rows |-> [i \in DOMAIN table |->
                [c \in header |-> to_csv_column(the_column(table, c))[i]]]]

is_digit(c) == \E n \in 0 .. 9 : c = Digit(n)

digit_value(c) == CHOOSE n \in 0 .. 9 : c = Digit(n)

all_digits(t) == t # <<>> /\ \A i \in DOMAIN t : is_digit(t[i])

RECURSIVE str_to_int(_)
str_to_int(t) ==
    IF t = <<>> THEN 0
    ELSE 10 * str_to_int(SubSeq(t, 1, Len(t) - 1)) + digit_value(t[Len(t)])

unsigned(t) == IF t # <<>> /\ t[1] = "-" THEN Tail(t) ELSE t

is_int_literal(t) == all_digits(unsigned(t))

\* digits "." zeros
is_float_literal(t) ==
    LET u == unsigned(t)
    IN \E p \in DOMAIN u :
        /\ u[p] = "."
        /\ all_digits(SubSeq(u, 1, p - 1))
        /\ p < Len(u)
        /\ \A i \in (p + 1) .. Len(u) : u[i] = "0"

parse_number(t) ==
    LET u == unsigned(t)
        whole == IF is_int_literal(t) THEN u
                 ELSE SubSeq(u, 1, Min({p \in DOMAIN u : u[p] = "."}) - 1)
    IN IntV(IF u = t THEN str_to_int(whole) ELSE 0 - str_to_int(whole))

\* the texts pd.read_csv reads as a missing value
na_values ==
    {"#N/A", "#N/A N/A", "#NA", "-1.#IND", "-1.#QNAN", "-NaN", "-nan", "1.#IND",
     "1.#QNAN", "<NA>", "N/A", "NA", "NULL", "NaN", "None", "n/a", "nan", "null"}

is_na_text(t) == t = <<>> \/ (Len(t) = 1 /\ t[1] \in na_values)

\* pd.read_csv on one column: int64 when every cell is an integer, float64
\* when every cell is a number or missing, text otherwise
read_csv_column(col) ==
    LET data == {i \in DOMAIN col : ~is_na_text(col[i])}
        numeric == \A i \in data : is_int_literal(col[i]) \/ is_float_literal(col[i])
    IN [i \in DOMAIN col |->
          IF i \notin data THEN (IF numeric THEN NaN ELSE NullStr)
          ELSE IF numeric THEN parse_number(col[i])
          ELSE Str(col[i])]

read_csv(file) ==
    [i \in DOMAIN file.rows |->
        [c \in file.header |-> read_csv_column(the_column(file.rows, c))[i]]]

is_date_literal(t) ==
    /\ Len(t) = 10
    /\ t[5] = "-" /\ t[8] = "-"
    /\ all_digits(SubSeq(t, 1, 4)) /\ all_digits(SubSeq(t, 6, 7))
    /\ all_digits(SubSeq(t, 9, 10))
    /\ LET y == str_to_int(SubSeq(t, 1, 4))
           m == str_to_int(SubSeq(t, 6, 7))
           d == str_to_int(SubSeq(t, 9, 10))
       IN /\ y >= 1678 /\ m \in 1 .. 12 /\ d >= 1
          /\ civil_from_days(days_from_civil(y, m, d)) = [y |-> y, m |-> m, d |-> d]

\* pd.to_datetime(x, errors='coerce') on one value: a text that is not a
\* date and a missing value become NaT, an integer counts nanoseconds from
\* 1970-01-01
to_datetime(x) ==
    CASE x.k = "date" -> x
      [] x.k = "str" /\ is_date_literal(x.v) ->
            DateV(days_from_civil(str_to_int(SubSeq(x.v, 1, 4)),
                                  str_to_int(SubSeq(x.v, 6, 7)),
                                  str_to_int(SubSeq(x.v, 9, 10))))
      [] x.k = "int" -> DateV(days_from_civil(1970, 1, 1))
      [] OTHER -> NoneV

\* the columns load_project_data converts (line 74)
date_columns ==
    {"KickOffDate", "ExpectedDECompletion", "TestingInfoSent", "ActualGoLiveDate",
     "ExportDate"}

\* mutant: the table is used as pd.read_csv returns it
load_project_data_unparsed(files) ==
    LET found == {n \in DOMAIN possible_files : files[possible_files[n]].exists}
        file == files[possible_files[Min(found)]]
    IN IF found = {}
       THEN [df |-> <<>>, columns |-> {}, error |-> TRUE]
       ELSE [df |-> read_csv(file), columns |-> file.header, error |-> FALSE]

\* lines 51-83: the first file that can be read, its date columns converted;
\* an empty table when none can
load_project_data(files) ==
    LET found == {n \in DOMAIN possible_files : files[possible_files[n]].exists}
        file == files[possible_files[Min(found)]]
        table == read_csv(file)
    IN IF found = {}
       THEN [df |-> <<>>, columns |-> {}, error |-> TRUE]
       ELSE [df |-> [i \in DOMAIN table |->
                        [c \in file.header |->
                            IF c \in date_columns THEN to_datetime(table[i][c])
                            ELSE table[i][c]]],
             columns |-> file.header,
             error |-> FALSE]

\* the table of export_all_data as a frame: its texts are values
as_frame(table) ==
    [i \in DOMAIN table |->
        [c \in DOMAIN table[i] |->
            IF c \in {"ProjectState", "Status"} THEN Str(<<table[i][c]>>)
            ELSE table[i][c]]]

ExportColumns ==
    {"ProjectState", "KickOffDate", "TestingInfoSent", "ActualGoLiveDate",
     "DaysSinceKickoff", "ExpectedDECompletion", "Status", "DaysUntilSLA",
     "DaysToTestingInfoSent", "DaysToCompletion"}

\* rows of dbo.defects for the round trip: no, placeholder, early and late
\* kickoffs, with and without milestones
CsvRows ==
    {Row(s, k, NoneV, NoneV) :
        s \in {"Design", "Intake"},
        k \in {NoneV, DateV(Sentinel), DateV(FirstDay), DateV(LastDay)}}
    \cup {Row("Complete", k, t, g) :
            k \in {NoneV, DateV(FirstDay + 4)},
            t \in {NoneV, DateV(FirstDay + 20)},
            g \in {NoneV, DateV(FirstDay + 30)}}

CsvTables == UNION {[1 .. n -> CsvRows] : n \in 1 .. MaxRows}

InitCsv ==
    /\ deploy = <<>>
    /\ db \in CsvTables
    /\ today \in Todays
    /\ exported = <<>>
    /\ pc = "main"
    /\ csv = NoFiles
    /\ DashIdle

\* export_to_csv.py main, lines 223-241: the table is computed and written
ExportMain ==
    /\ pc = "main"
    /\ exported' = export_all_data(db, today)
    /\ csv' = [csv EXCEPT ![latest_projects] =
                  to_csv(as_frame(exported'), ExportColumns)]
    /\ pc' = "saved"
    /\ UNCHANGED <<deploy, db, today>>
    /\ UNCHANGED dashVars

\* the dashboard loads the file
LoadProjectData ==
    /\ pc \in {"saved", "resaved"}
    /\ LET r == load_project_data(csv)
       IN /\ df' = r.df
          /\ columns' = r.columns
    /\ pc' = IF pc = "saved" THEN "loaded" ELSE "reloaded"
    /\ UNCHANGED <<deploy, db, today, exported, csv>>
    /\ UNCHANGED <<w, ms, ss, filtered_df, raised, applied, edits, page>>

\* the loaded table is written back to the file by the same to_csv
SaveLoaded ==
    /\ pc = "loaded"
    /\ csv' = [csv EXCEPT ![latest_projects] = to_csv(df, columns)]
    /\ pc' = "resaved"
    /\ UNCHANGED <<deploy, db, today, exported>>
    /\ UNCHANGED dashVars

NextCsv ==
    \/ ExportMain
    \/ LoadProjectData
    \/ SaveLoaded

SpecCsv == InitCsv /\ [][NextCsv]_vars

-----------------------------------------------------------------------------
(* streamlit_app.py: one run of main from the files on disk: the load, the *)
(* performance metrics (lines 282-381) and the SLA trend (lines 994-1003). *)
(* The steps between them are named, their results are those of SpecDash.  *)

PerfRow(state, kickoff, testing, de, golive) ==
    [ProjectState |-> Str(<<state>>), KickOffDate |-> kickoff,
     TestingInfoSent |-> testing, DECompletionDate |-> de,
     ActualGoLiveDate |-> golive]

\* go-live dates inside the last 6 months, on the 180th day back and before
\* the last 12 months
GoLives == {DashToday - 10, DashToday - 180, DashToday - 400}

\* days from the kickoff to Testing Info Sent and to DE Completion Date; -1
\* for a date that is missing
Milestones ==
    {<<-1, -1>>, <<21, 21>>, <<21, 22>>, <<22, 21>>, <<-1, 21>>, <<22, -1>>}

Milestone(kickoff, days) == IF days < 0 THEN NoneV ELSE DateV(kickoff + days)

\* rows of the file: completed projects with their milestones, and rows that
\* calculate_performance_metrics leaves out
PerfRows ==
    {PerfRow("Complete", DateV(g - 50), Milestone(g - 50, ms0[1]),
             Milestone(g - 50, ms0[2]), DateV(g)) :
        g \in GoLives, ms0 \in Milestones}
    \cup {PerfRow("Security", DateV(DashToday - 60), DateV(DashToday - 39),
                  DateV(DashToday - 38), DateV(DashToday - 10)),
          PerfRow("Design", DateV(DashToday - 60), DateV(DashToday - 39),
                  DateV(DashToday - 39), DateV(DashToday - 10)),
          PerfRow("Complete", NoneV, NoneV, NoneV, DateV(DashToday - 10)),
          PerfRow("Complete", DateV(Sentinel), DateV(21), DateV(21),
                  DateV(DashToday - 10)),
          PerfRow("Complete", DateV(DashToday - 60), DateV(DashToday - 39),
                  DateV(DashToday - 39), NoneV)}

PerfTables == UNION {[1 .. n -> PerfRows] : n \in 0 .. MaxRows}

\* the columns of the file: export_to_csv.py writes no DE Completion Date
PerfHeaders ==
    {{"ProjectState", "KickOffDate", "TestingInfoSent", "ActualGoLiveDate"},
     {"ProjectState", "KickOffDate", "TestingInfoSent", "ActualGoLiveDate",
      "DECompletionDate"}}

\* (end - start).dt.days: NaN when a date is NaT
dt_days(end, start) ==
    IF notna(end) /\ notna(start) THEN IntV(end.v - start.v) ELSE NaN

\* lines 85-122: the completed projects with their durations; a KeyError is
\* caught and reported with st.warning
calculate_performance_metrics(table, cols) ==
    LET completed == SelectSeq([i \in 1 .. Len(table) |-> i], LAMBDA i :
            /\ table[i].ProjectState.v \in {<<"Complete">>, <<"Security">>}
            /\ notna(table[i].KickOffDate)
            /\ table[i].KickOffDate # DateV(Sentinel)
            /\ notna(table[i].ActualGoLiveDate))
    IN IF "ProjectState" \notin cols
       THEN [rows |-> <<>>, warning |-> TRUE]
       ELSE IF completed = <<>>
       THEN [rows |-> <<>>, warning |-> FALSE]
       ELSE IF "DECompletionDate" \notin cols
       THEN [rows |-> <<>>, warning |-> TRUE]
       ELSE [rows |-> [n \in DOMAIN completed |->
                LET r == table[completed[n]]
                IN [ActualGoLiveDate |-> r.ActualGoLiveDate,
                    Days_to_Testing |-> dt_days(r.TestingInfoSent, r.KickOffDate),
                    Days_to_DE_Completion |->
                        dt_days(to_datetime(r.DECompletionDate), r.KickOffDate),
                    Days_to_Completion |->
                        dt_days(r.ActualGoLiveDate, r.KickOffDate)]],
             warning |-> FALSE]

\* performance_df[performance_df['Actual Go-Live Date'] >= now - timedelta(days)]:
\* the dates are midnights and now is later in its day
go_live_since(perf, day, days) ==
    SelectSeq(perf, LAMBDA r : r.ActualGoLiveDate.v > day - days)

\* a rate num / den * 100, kept as the fraction
Rate(num, den) == IF den > 0 THEN <<num, den>> ELSE <<0, 1>>

\* mutant: the rate over every record of the period
sla_rate_all(perf) ==
    Rate(Len(SelectSeq(perf, LAMBDA r : le(r.Days_to_DE_Completion, 21))), Len(perf))

\* lines 352-354: the records with a DE duration, those within 21 days
sla_rate(perf) ==
    LET valid_de == SelectSeq(perf, LAMBDA r : notna(r.Days_to_DE_Completion))
        sla_met == IF Len(valid_de) > 0
                   THEN Len(SelectSeq(valid_de, LAMBDA r :
                            le(r.Days_to_DE_Completion, 21)))
                   ELSE 0
    IN Rate(sla_met, Len(valid_de))

\* f"{rate:.1f}": the rate in tenths of a percent, rounded to the nearest
format_1f(rate) == (2000 * rate[1] + rate[2]) \div (2 * rate[2])

\* .dt.to_period('M'), as the number of the month
to_period(day) ==
    LET c == civil_from_days(day) IN 12 * c.y + c.m - 1

\* lines 999-1003: for each go-live month, the records with Days_to_Testing
\* within 21 days over the records of the month
monthly_sla(perf) ==
    LET months == {to_period(perf[n].ActualGoLiveDate.v) : n \in DOMAIN perf}
    IN [mth \in months |->
          LET x == SelectSeq(perf, LAMBDA r : to_period(r.ActualGoLiveDate.v) = mth)
          IN Rate(Len(SelectSeq(x, LAMBDA r : le(r.Days_to_Testing, 21))), Len(x))]

\* the steps of main after the no-data check, in the order of the code
steps_with_data(has_perf) ==
    <<"load_project_data", "calculate_performance_metrics", "summary">>
    \o (IF has_perf THEN <<"performance_metrics">> ELSE <<>>)
    \o <<"filters", "key_metrics", "tabs", "executive_summary">>
    \o (IF has_perf THEN <<"sla_trend">> ELSE <<>>)

\* main, lines 282-381 and 994-1003
main(files, day) ==
    LET l == load_project_data(files)
        p == calculate_performance_metrics(l.df, l.columns)
        has_perf == p.rows # <<>>
    IN [df |-> l.df,
        columns |-> l.columns,
        page |->
          IF l.df = <<>>
          THEN [steps |-> <<"load_project_data", "calculate_performance_metrics",
                            "no_data">>,
                load_error |-> l.error, warning |-> p.warning, no_data |-> TRUE,
                performance |-> FALSE, sla_6m |-> 0, sla_12m |-> 0,
                trend |-> <<>>]
          ELSE [steps |-> steps_with_data(has_perf),
                load_error |-> l.error, warning |-> p.warning, no_data |-> FALSE,
                performance |-> has_perf,
                sla_6m |-> format_1f(sla_rate(go_live_since(p.rows, day, 180))),
                sla_12m |-> format_1f(sla_rate(go_live_since(p.rows, day, 365))),
                trend |-> monthly_sla(p.rows)]]

\* the files the dashboard can find: either path readable or not, the file a
\* table written by to_csv
InitMain ==
    /\ db = <<>>
    /\ deploy = <<>>
    /\ exported = <<>>
    /\ pc = "open"
    /\ today = DashToday
    /\ df = <<>>
    /\ columns = {}
    /\ w = <<>>
    /\ ms = <<>>
    /\ ss = <<>>
    /\ filtered_df = <<>>
    /\ raised = "none"
    /\ applied = <<>>
    /\ edits = 0
    /\ page = <<>>
    /\ \E table \in PerfTables : \E header \in PerfHeaders :
       \E found \in SUBSET {possible_files[n] : n \in DOMAIN possible_files} :
            csv = [path \in {possible_files[n] : n \in DOMAIN possible_files} |->
                      IF path \in found THEN to_csv(table, header) ELSE NoFile]

RunMain ==
    /\ pc = "open"
    /\ LET r == main(csv, today)
       IN /\ df' = r.df
          /\ columns' = r.columns
          /\ page' = r.page
    /\ pc' = "shown"
    /\ UNCHANGED <<deploy, db, today, exported, csv>>
    /\ UNCHANGED <<w, ms, ss, filtered_df, raised, applied, edits>>

NextMain == RunMain

SpecMain == InitMain /\ [][NextMain]_vars

-----------------------------------------------------------------------------
(* streamlit_app.py: main *)

\* filtered_df[mask] is SelectSeq: the rows of idx that pass the mask, in
\* their order

\* Firewall counts as Design, Security as Complete
effective_state(state) ==
    CASE state = "Firewall" -> "Design"
      [] state = "Security" -> "Complete"
      [] OTHER -> state

\* mutant: the state filter compares the effective state
state_filter_effective(table, idx, selected_states) ==
    IF selected_states # {}
    THEN SelectSeq(idx, LAMBDA i : effective_state(table[i].ProjectState) \in selected_states)
    ELSE idx

state_filter(table, idx, selected_states) ==
    IF selected_states # {}
    THEN SelectSeq(idx, LAMBDA i : table[i].ProjectState \in selected_states)
    ELSE idx

engineer_filter(table, idx, selected_engineer) ==
    IF selected_engineer # All
    THEN SelectSeq(idx, LAMBDA i : table[i].DesignEngineer = selected_engineer)
    ELSE idx

critical_filter(table, idx, flag) ==
    IF flag
    THEN SelectSeq(idx, LAMBDA i : table[i].Status \in {"Overdue", "Attention Needed"})
    ELSE idx

week_kickoffs_filter(table, idx, flag, day) ==
    IF flag
    THEN SelectSeq(idx, LAMBDA i :
            /\ notna(table[i].KickOffDate)
            /\ table[i].KickOffDate.v >= day
            /\ table[i].KickOffDate.v <= day + 7)
    ELSE idx

defect_filter(table, idx, defect_search) ==
    IF defect_search # <<>>
    THEN SelectSeq(idx, LAMBDA i : str_contains(table[i].DefectID, defect_search))
    ELSE idx

facility_filter(table, idx, selected_facility) ==
    IF selected_facility # All
    THEN SelectSeq(idx, LAMBDA i : table[i].Facility = selected_facility)
    ELSE idx

service_line_filter(table, idx, selected_service_line) ==
    IF selected_service_line # All
    THEN SelectSeq(idx, LAMBDA i : table[i].ServiceLine = selected_service_line)
    ELSE idx

asa_filter(table, idx, selected_asa) ==
    IF selected_asa # AllStr
    THEN SelectSeq(idx, LAMBDA i : str_contains(table[i].ASAAssigned, selected_asa))
    ELSE idx

opw_filter(table, idx, opw_search) ==
    IF opw_search # <<>>
    THEN SelectSeq(idx, LAMBDA i : str_contains(table[i].OPW, opw_search))
    ELSE idx

ip_filter(table, idx, ip_search) ==
    IF ip_search # <<>>
    THEN SelectSeq(idx, LAMBDA i :
            str_contains(table[i].OPW, ip_search)
                \/ str_contains(table[i].Comments, ip_search))
    ELSE idx

\* str.contains compiles its pattern before it looks at any row
contains_raises(pat, none) == pat # none /\ ~regex_compiles(pat)

\* df[name] raises KeyError when the table has no such column
missing(cols, name) == name \notin cols

\* the exception of the first statement that raises, in the order of the code
first_raise(checks) ==
    IF \E n \in DOMAIN checks : checks[n][1]
    THEN checks[Min({n \in DOMAIN checks : checks[n][1]})][2]
    ELSE "none"

\* mutant: a preset flag stays set after the run that read it
keep_flags(ssv) == ssv

\* lines 522 and 536: a preset flag is reset in the run that reads it
reset_flags(ssv) ==
    [ssv EXCEPT !.filter_critical = FALSE, !.filter_week_kickoffs = FALSE]

\* lines 508-586: the filters in the order of the code.  A statement that
\* reads a missing column ends the run with KeyError, a pattern that does not
\* compile ends it with re.error; line 586 reads Status after the filters
apply_filters(table, cols, selected_states, wv, ssv, day) ==
    LET f0 == [i \in 1 .. Len(table) |-> i]
        f1 == state_filter(table, f0, selected_states)
        f2 == engineer_filter(table, f1, wv.engineer)
        f3 == critical_filter(table, f2, ssv.filter_critical)
        f4 == week_kickoffs_filter(table, f3, ssv.filter_week_kickoffs, day)
        f5 == defect_filter(table, f4, wv.defect_search)
        f6 == facility_filter(table, f5, wv.facility)
        f7 == service_line_filter(table, f6, wv.service_line)
        f8 == asa_filter(table, f7, wv.asa)
        f9 == opw_filter(table, f8, wv.opw_search)
        f10 == ip_filter(table, f9, wv.ip_search)
        critical_raises == ssv.filter_critical /\ missing(cols, "Status")
        err == first_raise(<<
            <<critical_raises, "KeyError">>,
            <<contains_raises(wv.defect_search, <<>>), "re.error">>,
            <<contains_raises(wv.asa, AllStr), "re.error">>,
            <<wv.opw_search # <<>> /\ missing(cols, "OPW"), "KeyError">>,
            <<contains_raises(wv.opw_search, <<>>), "re.error">>,
            <<wv.ip_search # <<>> /\ missing(cols, "OPW"), "KeyError">>,
            <<contains_raises(wv.ip_search, <<>>), "re.error">>,
            <<wv.ip_search # <<>> /\ missing(cols, "Comments"), "KeyError">>,
            <<missing(cols, "Status"), "KeyError">> >>)
    IN [filtered |-> IF err # "none" THEN <<>> ELSE f10,
        raised |-> err,
        applied |-> [critical |-> ssv.filter_critical /\ ~critical_raises,
                     week |-> ssv.filter_week_kickoffs /\ ~critical_raises],
        ss |-> IF critical_raises THEN ssv
               ELSE reset_flags(ssv)]

\* mutant: the session's selected states are the default as they are
states_widget_unvalidated(table, msv, ssv) ==
    LET ps == project_states(table)
        defaults == {"Design", "Firewall"} \cap ps
        ss1 == IF ssv.has_selected_states THEN ssv
               ELSE [ssv EXCEPT !.has_selected_states = TRUE,
                                !.selected_states =
                                    IF defaults = {} /\ ps # {}
                                    THEN {first_state(ps)} ELSE defaults]
        valid_states == ss1.selected_states
        value == IF msv.exists /\ msv.default = valid_states
                 THEN msv.value ELSE valid_states
    IN [ms |-> [exists |-> TRUE, default |-> valid_states, value |-> value],
        ss |-> IF value # {} THEN [ss1 EXCEPT !.selected_states = value] ELSE ss1]

\* lines 444-466: the session's selected states and the multiselect.  The
\* multiselect has no key: a changed default makes it a new widget that
\* starts at its default, an unchanged default keeps the user's value
states_widget(table, msv, ssv) ==
    LET ps == project_states(table)
        defaults == {"Design", "Firewall"} \cap ps
        ss1 == IF ssv.has_selected_states THEN ssv
               ELSE [ssv EXCEPT !.has_selected_states = TRUE,
                                !.selected_states =
                                    IF defaults = {} /\ ps # {}
                                    THEN {first_state(ps)} ELSE defaults]
        valid0 == ss1.selected_states \cap ps
        valid_states == IF valid0 = {} /\ ps # {} THEN {first_state(ps)} ELSE valid0
        value == IF msv.exists /\ msv.default = valid_states
                 THEN msv.value ELSE valid_states
    IN [ms |-> [exists |-> TRUE, default |-> valid_states, value |-> value],
        ss |-> IF value # {} THEN [ss1 EXCEPT !.selected_states = value] ELSE ss1]

\* the columns main reads before it draws each widget (lines 427-469)
facility_columns == {"Facility"}

service_line_columns == facility_columns \cup {"Service Line"}

asa_columns == service_line_columns \cup {"ASA Assigned"}

engineer_columns == asa_columns \cup {"Design Engineer"}

\* one run of main in which no button is pressed; a run that raises before
\* the multiselect leaves the session as it was
run_script(table, cols, wv, msv, ssv, day) ==
    LET sw == states_widget(table, msv, ssv)
        r == apply_filters(table, cols, sw.ms.value, wv, sw.ss, day)
        unread == [critical |-> FALSE, week |-> FALSE]
    IN IF ~(asa_columns \subseteq cols)
       THEN [ms |-> msv, ss |-> ssv, filtered |-> <<>>, raised |-> "KeyError",
             applied |-> unread]
       ELSE IF ~(engineer_columns \subseteq cols)
       THEN [ms |-> sw.ms, ss |-> sw.ss, filtered |-> <<>>, raised |-> "KeyError",
             applied |-> unread]
       ELSE [ms |-> sw.ms, ss |-> r.ss, filtered |-> r.filtered,
             raised |-> r.raised, applied |-> r.applied]

\* lines 414-421: Clear All deletes the top_ keys and selected_states and
\* sets the selected states; the run stops before the multiselect is drawn
clear_all(ssv) ==
    [ssv EXCEPT !.has_selected_states = TRUE,
                !.selected_states = {"Design", "Firewall"}]

\* lines 478-502: the run in which a button of the quick filters is pressed
\* sets the session and calls st.rerun(), which runs main again
press_button(table, cols, wv, msv, ssv, day, button) ==
    LET sw == states_widget(table, msv, ssv)
        ss3 == CASE button = "critical" ->
                    [sw.ss EXCEPT !.selected_states = {"Design", "Firewall", "Testing"},
                                  !.filter_critical = TRUE]
                 [] button = "week" ->
                    [sw.ss EXCEPT !.selected_states =
                                      {"Design", "Firewall", "Testing", "Intake"},
                                  !.filter_week_kickoffs = TRUE]
                 [] button = "active" ->
                    [sw.ss EXCEPT !.selected_states = {"Design", "Firewall", "Testing"}]
                 [] button = "intake" ->
                    [sw.ss EXCEPT !.selected_states = {"Intake"}]
                 [] button = "all" ->
                    [sw.ss EXCEPT !.selected_states = project_states(table)]
                 [] button = "reset" ->
                    [sw.ss EXCEPT !.selected_states = {"Design", "Firewall"},
                                  !.filter_critical = FALSE,
                                  !.filter_week_kickoffs = FALSE]
    IN run_script(table, cols, wv, sw.ms, ss3, day)

\* the columns of the export (export_to_csv.py) that main's filters read
FilterColumns ==
    {"Facility", "Service Line", "ASA Assigned", "OPW", "Comments",
     "Design Engineer", "Status"}

AllColumns == FilterColumns \cup {"Defect ID", "Project State", "Kick-Off Date"}

\* the first run of main
FirstRun ==
    LET r == run_script(df, columns, DefaultWidgets, NoMultiselect, EmptySession, today)
    IN /\ ms = r.ms
       /\ ss = r.ss
       /\ filtered_df = r.filtered
       /\ raised = r.raised
       /\ applied = r.applied

\* the dashboard is opened on a complete export
InitDash ==
    /\ db = <<>>
    /\ deploy = <<>>
    /\ exported = <<>>
    /\ csv = NoFiles
    /\ page = <<>>
    /\ pc = "dash"
    /\ today = DashToday
    /\ df \in DashTables
    /\ w = DefaultWidgets
    /\ edits = 0
    /\ columns = AllColumns
    /\ FirstRun

\* the dashboard is opened on an export that lacks one of the columns the
\* filters read
InitDrift ==
    /\ db = <<>>
    /\ deploy = <<>>
    /\ exported = <<>>
    /\ csv = NoFiles
    /\ page = <<>>
    /\ pc = "dash"
    /\ today = DashToday
    /\ df \in DashTables
    /\ w = DefaultWidgets
    /\ edits = 0
    /\ columns \in {AllColumns \ {c} : c \in FilterColumns}
    /\ FirstRun

\* the state after the run r
Ran(r) ==
    /\ ms' = r.ms
    /\ ss' = r.ss
    /\ filtered_df' = r.filtered
    /\ raised' = r.raised
    /\ applied' = r.applied
    /\ edits' = edits + 1
    /\ UNCHANGED <<df, columns, page, exportVars>>

CanEdit == pc = "dash" /\ edits < MaxEdits

\* a widget is on the page when the run reached the line that draws it
drawn(needed) == needed \subseteq columns

TypeDefectSearch ==
    /\ CanEdit
    /\ \E str \in Searches \cup {<<>>} :
        /\ w' = [w EXCEPT !.defect_search = str]
        /\ Ran(run_script(df, columns, w', ms, ss, today))

TypeOpwSearch ==
    /\ CanEdit
    /\ \E str \in Searches \cup {<<>>} :
        /\ w' = [w EXCEPT !.opw_search = str]
        /\ Ran(run_script(df, columns, w', ms, ss, today))

TypeIpSearch ==
    /\ CanEdit
    /\ \E str \in Searches \cup {<<>>} :
        /\ w' = [w EXCEPT !.ip_search = str]
        /\ Ran(run_script(df, columns, w', ms, ss, today))

SelectFacility ==
    /\ CanEdit
    /\ drawn(facility_columns)
    /\ \E f \in facilities(df) :
        /\ w' = [w EXCEPT !.facility = f]
        /\ Ran(run_script(df, columns, w', ms, ss, today))

SelectServiceLine ==
    /\ CanEdit
    /\ drawn(service_line_columns)
    /\ \E f \in service_lines(df) :
        /\ w' = [w EXCEPT !.service_line = f]
        /\ Ran(run_script(df, columns, w', ms, ss, today))

SelectAsa ==
    /\ CanEdit
    /\ drawn(asa_columns)
    /\ \E a \in asa_options(df) :
        /\ w' = [w EXCEPT !.asa = a]
        /\ Ran(run_script(df, columns, w', ms, ss, today))

SelectEngineer ==
    /\ CanEdit
    /\ drawn(engineer_columns)
    /\ \E e \in engineers(df) :
        /\ w' = [w EXCEPT !.engineer = e]
        /\ Ran(run_script(df, columns, w', ms, ss, today))

SelectStates ==
    /\ CanEdit
    /\ drawn(asa_columns)
    /\ \E S \in SUBSET project_states(df) :
        /\ w' = w
        /\ Ran(run_script(df, columns, w, [ms EXCEPT !.value = S], ss, today))

ClickCritical ==
    /\ CanEdit
    /\ drawn(engineer_columns)
    /\ w' = w
    /\ Ran(press_button(df, columns, w, ms, ss, today, "critical"))

ClickWeekKickoffs ==
    /\ CanEdit
    /\ drawn(engineer_columns)
    /\ w' = w
    /\ Ran(press_button(df, columns, w, ms, ss, today, "week"))

NextDash ==
    \/ TypeDefectSearch
    \/ TypeOpwSearch
    \/ TypeIpSearch
    \/ SelectFacility
    \/ SelectServiceLine
    \/ SelectAsa
    \/ SelectEngineer
    \/ SelectStates
    \/ ClickCritical
    \/ ClickWeekKickoffs

SpecDrift == InitDrift /\ [][NextDash]_vars

-----------------------------------------------------------------------------
(* streamlit_app.py: a session with every button, row selections and data  *)
(* reloads (the cache of load_project_data expires after 300 seconds)       *)

\* the files the session sees: Design, Firewall and Complete projects; one
\* Complete project; two Design projects; one Design project
SessionTables ==
    {SubTable({1, 2, 4}), SubTable({4}), SubTable({3, 5}), SubTable({1})}

InitSession ==
    /\ db = <<>>
    /\ deploy = <<>>
    /\ exported = <<>>
    /\ csv = NoFiles
    /\ page = <<>>
    /\ pc = "dash"
    /\ today = DashToday
    /\ df \in SessionTables
    /\ w = DefaultWidgets
    /\ edits = 0
    /\ columns = AllColumns
    /\ FirstRun

\* del st.session_state[key] for the keys top_...: the search boxes
cleared_searches(wv) ==
    [wv EXCEPT !.defect_search = <<>>, !.opw_search = <<>>, !.ip_search = <<>>]

\* lines 414-421.  st.rerun() ends the run before the widgets below the
\* button are drawn; whether the widgets that were not drawn keep their
\* values depends on the version of streamlit (requirements: >= 1.29.0)
ClickClearAll ==
    /\ CanEdit
    /\ \E kept \in BOOLEAN :
        /\ w' = IF kept THEN cleared_searches(w) ELSE DefaultWidgets
        /\ Ran(run_script(df, columns, w', IF kept THEN ms ELSE NoMultiselect,
                          clear_all(ss), today))

ClickResetFilters ==
    /\ CanEdit
    /\ drawn(engineer_columns)
    /\ w' = cleared_searches(w)
    /\ Ran(press_button(df, columns, w', ms, ss, today, "reset"))

ClickActiveOnly ==
    /\ CanEdit
    /\ drawn(engineer_columns)
    /\ w' = w
    /\ Ran(press_button(df, columns, w, ms, ss, today, "active"))

ClickIntakeOnly ==
    /\ CanEdit
    /\ drawn(engineer_columns)
    /\ w' = w
    /\ Ran(press_button(df, columns, w, ms, ss, today, "intake"))

ClickAllProjects ==
    /\ CanEdit
    /\ drawn(engineer_columns)
    /\ w' = w
    /\ Ran(press_button(df, columns, w, ms, ss, today, "all"))

\* lines 704-710: selecting a row of the table runs main again
SelectRow ==
    /\ CanEdit
    /\ raised = "none"
    /\ filtered_df # <<>>
    /\ w' = w
    /\ Ran(run_script(df, columns, w, ms, ss, today))

\* a run after the cache has expired reads another file; a widget without a
\* key whose options have changed is a new widget and starts at its default
ReloadData ==
    /\ CanEdit
    /\ \E table \in SessionTables \ {df} :
        /\ df' = table
        /\ w' = [w EXCEPT
                !.facility = IF facilities(table) = facilities(df) THEN @ ELSE All,
                !.service_line =
                    IF service_lines(table) = service_lines(df) THEN @ ELSE All,
                !.asa = IF asa_options(table) = asa_options(df) THEN @ ELSE AllStr,
                !.engineer = IF engineers(table) = engineers(df) THEN @ ELSE All]
        /\ LET kept == IF project_states(table) = project_states(df)
                       THEN ms ELSE NoMultiselect
               r == run_script(table, columns, w', kept, ss, today)
           IN /\ ms' = r.ms
              /\ ss' = r.ss
              /\ filtered_df' = r.filtered
              /\ raised' = r.raised
              /\ applied' = r.applied
    /\ edits' = edits + 1
    /\ UNCHANGED <<columns, page, exportVars>>

NextSession ==
    \/ NextDash
    \/ ClickClearAll
    \/ ClickResetFilters
    \/ ClickActiveOnly
    \/ ClickIntakeOnly
    \/ ClickAllProjects
    \/ SelectRow
    \/ ReloadData

SpecSession == InitSession /\ [][NextSession]_vars

\* lines 598-613: the rows behind the key metrics, read from the result table
design_projects(table, idx) ==
    SelectSeq(idx, LAMBDA i : table[i].ProjectState = "Design")

firewall_projects(table, idx) ==
    SelectSeq(idx, LAMBDA i : table[i].ProjectState = "Firewall")

testing_projects(table, idx) ==
    SelectSeq(idx, LAMBDA i : table[i].ProjectState = "Testing")

\* lines 865-869: the active projects of the executive summary, read from
\* the loaded table
active_df(table) ==
    SelectSeq([i \in 1 .. Len(table) |-> i], LAMBDA i :
        /\ table[i].ProjectState \in {"Design", "Firewall", "Testing"}
        /\ table[i].ServiceArea # "Enterprise")

\* lines 915-920: the rows of the state chart; Firewall is shown as Design
active_states(table) ==
    LET state_df == [i \in 1 .. Len(table) |->
            IF table[i].ProjectState = "Firewall" THEN "Design"
            ELSE table[i].ProjectState]
    IN SelectSeq([i \in 1 .. Len(table) |-> i], LAMBDA i :
        /\ state_df[i] \in {"Testing", "Design", "Intake", "Hold"}
        /\ state_df[i] \notin {"Complete", "Cancelled", "Security"})

\* lines 955-960: the rows of the CE division chart
ce_active(table) ==
    LET ce_df == [i \in 1 .. Len(table) |->
            CASE table[i].ProjectState = "Firewall" -> "Design"
              [] table[i].ProjectState = "Security" -> "Complete"
              [] OTHER -> table[i].ProjectState]
    IN SelectSeq([i \in 1 .. Len(table) |-> i], LAMBDA i :
        ce_df[i] \notin {"Complete", "Cancelled"})

-----------------------------------------------------------------------------
(* streamlit_app.py: the key metrics of a file the export has written, for *)
(* exports on every day of one week                                         *)

\* the days the export is run on: 15 to 22 days after the first kickoff
MetricDays == (FirstDay + 15) .. (FirstDay + 21)

\* the state selections of the runs
MetricStates == {{}, {"Design"}, {"Design", "Firewall"}, {"Intake"}}

\* the columns of the loaded frame the key metrics read, texts as labels
metric_columns(table) ==
    [i \in DOMAIN table |->
        [ProjectState |-> table[i].ProjectState.v[1],
         Status |-> table[i].Status.v[1],
         DaysUntilSLA |-> table[i].DaysUntilSLA]]

\* lines 624-627 (streamlit_app_complete.py 400-401)
urgent(table, idx) ==
    SelectSeq(design_projects(table, idx), LAMBDA i :
        le(table[i].DaysUntilSLA, 3) /\ notna(table[i].DaysUntilSLA))

\* lines 598-632
key_metrics(table, idx) ==
    [design |-> Len(design_projects(table, idx)),
     firewall |-> Len(firewall_projects(table, idx)),
     testing |-> Len(testing_projects(table, idx)),
     overdue |-> Len(SelectSeq(design_projects(table, idx), LAMBDA i :
                        table[i].Status = "Overdue")),
     urgent |-> Len(urgent(table, idx))]

InitMetrics ==
    /\ deploy = <<>>
    /\ db \in CsvTables
    /\ today \in MetricDays
    /\ exported = <<>>
    /\ pc = "main"
    /\ csv = NoFiles
    /\ DashIdle

\* one run of main on the loaded file, with a selection of states
KeyMetrics ==
    /\ pc = "loaded"
    /\ \E selected_states \in MetricStates :
        LET table == metric_columns(df)
            idx == state_filter(table, [i \in 1 .. Len(table) |-> i], selected_states)
        IN /\ filtered_df' = idx
           /\ page' = key_metrics(table, idx)
    /\ pc' = "metrics"
    /\ UNCHANGED <<deploy, db, today, exported, csv>>
    /\ UNCHANGED <<df, w, ms, ss, raised, applied, edits, columns>>

NextMetrics ==
    \/ ExportMain
    \/ LoadProjectData
    \/ KeyMetrics

SpecMetrics == InitMetrics /\ [][NextMetrics]_vars

-----------------------------------------------------------------------------
(* streamlit_app_complete.py: main *)

AllDates == "All dates"

Awaiting == "Awaiting kickoff (1900-01-01)"

RealOnly == "Real kickoff dates only"

\* df['Status'].unique()
status_options(table) == {table[i].Status : i \in DOMAIN table}

CompleteWidgets(table) ==
    [engineer |-> All, selected_status |-> status_options(table),
     date_filter_type |-> AllDates, defect_search |-> <<>>]

status_filter(table, idx, selected_status) ==
    IF selected_status # {}
    THEN SelectSeq(idx, LAMBDA i : table[i].Status \in selected_status)
    ELSE idx

\* df['Kick-Off Date'] == '1900-01-01' on the parsed date column
is_placeholder(kickoff) == notna(kickoff) /\ kickoff.v = Sentinel

\* mutant: "Real kickoff dates only" drops the rows without a kickoff date
date_filter_dated(table, idx, date_filter_type) ==
    IF date_filter_type = Awaiting
    THEN SelectSeq(idx, LAMBDA i : is_placeholder(table[i].KickOffDate))
    ELSE IF date_filter_type = RealOnly
    THEN SelectSeq(idx, LAMBDA i :
            notna(table[i].KickOffDate) /\ ~is_placeholder(table[i].KickOffDate))
    ELSE idx

date_filter(table, idx, date_filter_type) ==
    IF date_filter_type = Awaiting
    THEN SelectSeq(idx, LAMBDA i : is_placeholder(table[i].KickOffDate))
    ELSE IF date_filter_type = RealOnly
    THEN SelectSeq(idx, LAMBDA i : ~is_placeholder(table[i].KickOffDate))
    ELSE idx

\* lines 344-366
complete_filters(table, selected_states, wv) ==
    LET f0 == [i \in 1 .. Len(table) |-> i]
        f1 == state_filter(table, f0, selected_states)
        f2 == engineer_filter(table, f1, wv.engineer)
        f3 == status_filter(table, f2, wv.selected_status)
        f4 == date_filter(table, f3, wv.date_filter_type)
        f5 == defect_filter(table, f4, wv.defect_search)
        err == contains_raises(wv.defect_search, <<>>)
    IN [filtered |-> IF err THEN <<>> ELSE f5,
        raised |-> IF err THEN "re.error" ELSE "none"]

\* lines 285-312: the quick buttons, the session's selected states and the
\* multiselect, whose default is the session's list as it is: st.multiselect
\* raises when a default is not one of the options
complete_states_widget(table, msv, ssv, button) ==
    LET ps == project_states(table)
        ss0 == CASE button = "active" ->
                      [ssv EXCEPT !.has_selected_states = TRUE,
                                  !.selected_states =
                                      ps \cap {"Design", "Firewall", "Testing",
                                               "Intake", "Hold"}]
                 [] button = "awaiting" ->
                      [ssv EXCEPT !.has_selected_states = TRUE,
                                  !.selected_states = {"Intake"}]
                 [] button = "all" ->
                      [ssv EXCEPT !.has_selected_states = TRUE,
                                  !.selected_states = ps]
                 [] OTHER -> ssv
        ss1 == IF ss0.has_selected_states THEN ss0
               ELSE [ss0 EXCEPT !.has_selected_states = TRUE,
                                !.selected_states = {"Design", "Firewall"}]
        default == ss1.selected_states
        ok == default \subseteq ps
        value == IF msv.exists /\ msv.default = default THEN msv.value ELSE default
    IN IF ok
       THEN [ms |-> [exists |-> TRUE, default |-> default, value |-> value],
             ss |-> IF value # {} THEN [ss1 EXCEPT !.selected_states = value] ELSE ss1,
             raised |-> "none"]
       ELSE [ms |-> NoMultiselect, ss |-> ss1, raised |-> "StreamlitAPIException"]

\* one run of main
run_complete(table, wv, msv, ssv, button) ==
    LET sw == complete_states_widget(table, msv, ssv, button)
        r == complete_filters(table, sw.ms.value, wv)
    IN IF sw.raised # "none"
       THEN [ms |-> sw.ms, ss |-> sw.ss, filtered |-> <<>>, raised |-> sw.raised,
             applied |-> <<>>]
       ELSE [ms |-> sw.ms, ss |-> sw.ss, filtered |-> r.filtered,
             raised |-> r.raised, applied |-> <<>>]

\* the complete dashboard is opened: the first run of main
InitComplete ==
    /\ db = <<>>
    /\ deploy = <<>>
    /\ exported = <<>>
    /\ csv = NoFiles
    /\ page = <<>>
    /\ pc = "complete"
    /\ today = DashToday
    /\ df \in DashTables
    /\ w = CompleteWidgets(df)
    /\ edits = 0
    /\ columns = AllColumns
    /\ LET r == run_complete(df, w, NoMultiselect, EmptySession, "none")
       IN /\ ms = r.ms
          /\ ss = r.ss
          /\ filtered_df = r.filtered
          /\ raised = r.raised
          /\ applied = r.applied

CanEditComplete == pc = "complete" /\ edits < MaxEdits

CompleteTypeDefectSearch ==
    /\ CanEditComplete
    /\ \E str \in Searches \cup {<<>>} :
        /\ w' = [w EXCEPT !.defect_search = str]
        /\ Ran(run_complete(df, w', ms, ss, "none"))

CompleteSelectEngineer ==
    /\ CanEditComplete
    /\ \E e \in engineers(df) :
        /\ w' = [w EXCEPT !.engineer = e]
        /\ Ran(run_complete(df, w', ms, ss, "none"))

CompleteSelectStatus ==
    /\ CanEditComplete
    /\ \E S \in SUBSET status_options(df) :
        /\ w' = [w EXCEPT !.selected_status = S]
        /\ Ran(run_complete(df, w', ms, ss, "none"))

CompleteSelectDateFilter ==
    /\ CanEditComplete
    /\ \E t \in {AllDates, Awaiting, RealOnly} :
        /\ w' = [w EXCEPT !.date_filter_type = t]
        /\ Ran(run_complete(df, w', ms, ss, "none"))

CompleteSelectStates ==
    /\ CanEditComplete
    /\ ms.exists
    /\ \E S \in SUBSET project_states(df) :
        /\ w' = w
        /\ Ran(run_complete(df, w, [ms EXCEPT !.value = S], ss, "none"))

CompleteClickButton ==
    /\ CanEditComplete
    /\ \E b \in {"active", "awaiting", "all"} :
        /\ w' = w
        /\ Ran(run_complete(df, w, ms, ss, b))

NextComplete ==
    \/ CompleteTypeDefectSearch
    \/ CompleteSelectEngineer
    \/ CompleteSelectStatus
    \/ CompleteSelectDateFilter
    \/ CompleteSelectStates
    \/ CompleteClickButton

\* both dashboards
InitDashboards == InitDash \/ InitComplete

NextDashboards == NextDash \/ NextComplete

SpecDash == InitDashboards /\ [][NextDashboards]_vars

-----------------------------------------------------------------------------
(* auto_deploy.py: main runs five steps; pc is the step about to start.  A  *)
(* file on disk is "missing", "stale" (left by an earlier run) or "fresh"   *)
(* (written by this run).                                                   *)

StepOrder ==
    <<"export_data", "setup_git_repo", "prepare_files_for_deployment",
      "commit_and_push", "verify_deployment">>

Steps == {StepOrder[n] : n \in DOMAIN StepOrder}

\* lines 46-49
required_files ==
    <<"exported_data/mdici_projects_latest.csv",
      "exported_data/mdici_performance_latest.csv">>

\* lines 120-123: the copies in the root directory
copied_files == <<"mdici_projects_latest.csv", "mdici_performance_latest.csv">>

DeployPaths ==
    {required_files[n] : n \in DOMAIN required_files}
    \cup {copied_files[n] : n \in DOMAIN copied_files}

\* the step after a step
following(step) ==
    LET n == CHOOSE k \in DOMAIN StepOrder : StepOrder[k] = step
    IN IF n = Len(StepOrder) THEN "done" ELSE StepOrder[n + 1]

\* mutant: main goes on to the next step whatever the step returned
next_step_regardless(step, ok) == following(step)

\* main, lines 240-269: "if not step(): return False"
next_step(step, ok) == IF ok THEN following(step) ELSE "done"

\* the step has run and returned ok, leaving the record d
Returned(step, ok, d) ==
    /\ deploy' = [d EXCEPT
            !.started = Append(@, step),
            !.results = Append(@, ok),
            !.returned = IF ~ok THEN "False"
                         ELSE IF following(step) = "done" THEN "True" ELSE @]
    /\ pc' = next_step(step, ok)
    /\ UNCHANGED <<db, today, exported, csv>>
    /\ UNCHANGED dashVars

InitDeploy ==
    /\ db = <<>>
    /\ exported = <<>>
    /\ today = DashToday
    /\ csv = NoFiles
    /\ DashIdle
    /\ pc = "export_data"
    /\ \E disk \in [DeployPaths -> {"missing", "stale"}] :
       \E git_repo \in BOOLEAN : \E app \in BOOLEAN :
            deploy = [disk |-> disk, git_repo |-> git_repo, app |-> app,
                      started |-> <<>>, results |-> <<>>, returned |-> "running",
                      export_failed |-> FALSE, charts |-> FALSE, copied |-> {},
                      staged |-> FALSE, committed |-> FALSE, pushed |-> FALSE,
                      created |-> FALSE, changed |-> FALSE]

\* export_data, lines 35-74.  The export script writes the files ("written"),
\* or raises inside its main, whose except prints the error and lets the
\* process end with exit code 0 ("raised"), or the process fails (another
\* exit code, "exit1"); the chart scripts may fail without effect
ExportData ==
    /\ pc = "export_data"
    /\ \E outcome \in {"written", "raised", "exit1"} : \E charts \in BOOLEAN :
        LET disk == IF outcome = "written"
                    THEN [path \in DeployPaths |->
                            IF \E n \in DOMAIN required_files : required_files[n] = path
                            THEN "fresh" ELSE deploy.disk[path]]
                    ELSE deploy.disk
            run_command == outcome # "exit1"
            found == \A n \in DOMAIN required_files : disk[required_files[n]] # "missing"
        IN Returned("export_data", run_command /\ found,
                    [deploy EXCEPT !.disk = disk,
                                   !.export_failed = outcome # "written",
                                   !.charts = run_command /\ found /\ charts])

\* setup_git_repo, lines 76-104
SetupGitRepo ==
    /\ pc = "setup_git_repo"
    /\ \E init \in BOOLEAN : \E remote \in BOOLEAN :
        IF deploy.git_repo
        THEN Returned("setup_git_repo", TRUE, deploy)
        ELSE Returned("setup_git_repo", init /\ remote,
                      [deploy EXCEPT !.git_repo = init, !.created = init])

\* prepare_files_for_deployment, lines 106-145: the files are copied one
\* after the other; an exception of shutil.copy2 (raises = 1 or 2 names the
\* copy that raises) reaches the except of main, which returns False
PrepareFiles ==
    /\ pc = "prepare_files_for_deployment"
    /\ \E raises \in 0 .. Len(required_files) :
        LET present(n) == deploy.disk[required_files[n]] # "missing"
            copies(n) == present(n) /\ raises # n
            done == IF ~deploy.app \/ ~copies(1) THEN {}
                    ELSE IF ~copies(2) THEN {1}
                    ELSE {1, 2}
            disk == [path \in DeployPaths |->
                        IF \E n \in done : copied_files[n] = path
                        THEN deploy.disk[required_files[
                                CHOOSE n \in done : copied_files[n] = path]]
                        ELSE deploy.disk[path]]
        IN Returned("prepare_files_for_deployment", done = {1, 2},
                    [deploy EXCEPT !.disk = disk,
                                   !.copied = {copied_files[n] : n \in done}])

\* commit_and_push, lines 147-200: a failed commit is taken to mean that
\* nothing has changed and is not a failure.  git commit fails when the
\* staged files equal the last commit (changed is false) and may fail for
\* another reason (no identity, as the results of git config at 101-102 are
\* ignored, a hook, a lock); a repository created by this run has no commit
\* yet, so that the staged files are a change
CommitAndPush ==
    /\ pc = "commit_and_push"
    /\ \E add \in BOOLEAN : \E changed \in BOOLEAN :
       \E commit \in BOOLEAN : \E push \in BOOLEAN :
        /\ deploy.created => changed
        /\ LET committed == changed /\ commit
           IN Returned("commit_and_push", add /\ (committed => push),
                       [deploy EXCEPT !.staged = add,
                                      !.changed = add /\ changed,
                                      !.committed = add /\ committed,
                                      !.pushed = add /\ committed /\ push])

\* verify_deployment, lines 202-233
VerifyDeployment ==
    /\ pc = "verify_deployment"
    /\ Returned("verify_deployment", TRUE, deploy)

NextDeploy ==
    \/ ExportData
    \/ SetupGitRepo
    \/ PrepareFiles
    \/ CommitAndPush
    \/ VerifyDeployment

SpecDeploy == InitDeploy /\ [][NextDeploy]_vars

-----------------------------------------------------------------------------
(* Properties of the export *)

Exported == pc = "exported"

ExportedRows == IF Exported THEN DOMAIN exported ELSE {}

\* C1: for every record whose Kick-Off Date is the placeholder 1900-01-01,
\* Days Since Kickoff, Expected DE Completion and Days Until SLA are null.
C1_SentinelFieldsNull ==
    \A i \in ExportedRows :
        exported[i].KickOffDate = DateV(Sentinel) =>
            /\ isna(exported[i].DaysSinceKickoff)
            /\ isna(exported[i].ExpectedDECompletion)
            /\ isna(exported[i].DaysUntilSLA)

StatusOfDays(d) ==
    IF d <= 14 THEN "On Track"
    ELSE IF d <= 21 THEN "Attention Needed"
    ELSE "Overdue"

\* C2: a Design record with a Days Since Kickoff of at most 14 (negative
\* included) is "On Track", of 15 to 21 "Attention Needed", of 22 or more
\* "Overdue".
C2_DesignStatusThresholds ==
    \A i \in ExportedRows :
        (exported[i].ProjectState = "Design" /\ exported[i].DaysSinceKickoff.k = "int")
            => exported[i].Status = StatusOfDays(exported[i].DaysSinceKickoff.v)

C2_Witness ==
    /\ Exported
    /\ \E i, j \in ExportedRows :
        /\ exported[i].ProjectState = "Design"
        /\ exported[j].ProjectState = "Design"
        /\ exported[i].DaysSinceKickoff = IntV(14)
        /\ exported[i].Status = "On Track"
        /\ exported[j].DaysSinceKickoff = IntV(22)
        /\ exported[j].Status = "Overdue"

\* C3: a Design record with a null Kick-Off Date has Status "No Kickoff Date",
\* whatever the other rows of the table contain.
C3_NoKickoffStatus ==
    \A i \in ExportedRows :
        (exported[i].ProjectState = "Design" /\ isna(exported[i].KickOffDate))
            => exported[i].Status = "No Kickoff Date"

FridaysBetween(a, b) == {d \in (a + 1) .. (b - 1) : Weekday(d) = 4}

\* C4: for every non-null kickoff date the expected completion is the third
\* Friday strictly after it: a Friday, 15 to 21 days later, with exactly two
\* Fridays strictly between, and 21 days later when the kickoff is a Friday.
C4_ThirdFriday ==
    \A i \in ExportedRows :
        notna(exported[i].KickOffDate) =>
            LET k == exported[i].KickOffDate.v
                e == exported[i].ExpectedDECompletion
            IN /\ e.k = "date"
               /\ Weekday(e.v) = 4
               /\ e.v - k \in 15 .. 21
               /\ Cardinality(FridaysBetween(k, e.v)) = 2
               /\ (Weekday(k) = 4 => e.v = k + 21)

C4_Witness ==
    /\ Exported
    /\ \E i \in ExportedRows :
        /\ exported[i].KickOffDate.k = "date"
        /\ exported[i].KickOffDate.v \in RealDays
        /\ Weekday(exported[i].KickOffDate.v) = 4
        /\ exported[i].ExpectedDECompletion = DateV(exported[i].KickOffDate.v + 21)

FixedStatus(s) ==
    CASE s = "Firewall" -> "Waiting for Firewall"
      [] s = "Testing" -> "Pending Updates from Site"
      [] s = "Intake" -> "In Intake Process"
      [] s = "Hold" -> "On Hold"
      [] s \in {"Complete", "Security"} -> "Completed"
      [] OTHER -> s

\* C5: the Status of a record whose state is not Design depends on the state
\* alone: the fixed label of its state, or the state itself for any other label.
C5_NonDesignStatus ==
    \A i \in ExportedRows :
        exported[i].ProjectState # "Design"
            => exported[i].Status = FixedStatus(exported[i].ProjectState)

C5_Witness ==
    /\ Exported
    /\ \E i, j \in ExportedRows :
        /\ exported[i].ProjectState = "Cancelled"
        /\ exported[i].Status = "Cancelled"
        /\ exported[j].ProjectState = "Testing"
        /\ exported[j].DaysSinceKickoff = IntV(22)
        /\ exported[j].Status = "Pending Updates from Site"

\* C6: Days Until SLA is non-null exactly for the Design records with a
\* non-null Expected DE Completion, and is then that date minus the export day.
C6_DaysUntilSLA ==
    \A i \in ExportedRows :
        IF exported[i].ProjectState = "Design" /\ notna(exported[i].ExpectedDECompletion)
        THEN exported[i].DaysUntilSLA = IntV(exported[i].ExpectedDECompletion.v - today)
        ELSE isna(exported[i].DaysUntilSLA)

C6_Witness ==
    /\ Exported
    /\ \E i, j \in ExportedRows :
        /\ exported[i].ProjectState = "Design"
        /\ exported[i].DaysUntilSLA.k = "int"
        /\ exported[i].DaysUntilSLA.v < 0
        /\ exported[j].ProjectState # "Design"
        /\ notna(exported[j].ExpectedDECompletion)
        /\ isna(exported[j].DaysUntilSLA)

ValidKickoff(k) == notna(k) /\ k # DateV(Sentinel)

Duration(end, kickoff) ==
    IF notna(end) /\ ValidKickoff(kickoff) THEN IntV(end.v - kickoff.v) ELSE NoneV

SameValue(a, b) == IF isna(a) THEN isna(b) ELSE a = b

\* C7: Days to Testing Info Sent and Days to Completion are null unless both
\* endpoint dates are present and the Kick-Off Date is not the placeholder;
\* otherwise they are the signed day difference end minus kickoff.
C7_MilestoneDurations ==
    \A i \in ExportedRows :
        /\ SameValue(exported[i].DaysToTestingInfoSent,
                     Duration(exported[i].TestingInfoSent, exported[i].KickOffDate))
        /\ SameValue(exported[i].DaysToCompletion,
                     Duration(exported[i].ActualGoLiveDate, exported[i].KickOffDate))

-----------------------------------------------------------------------------
(* Properties of the dashboards' filters *)

InDash == pc = "dash"

InComplete == pc = "complete"

RunCompleted == (InDash \/ InComplete) /\ raised = "none"

PState(i) == ms.value = {} \/ df[i].ProjectState \in ms.value

PEngineer(i) == w.engineer = All \/ df[i].DesignEngineer = w.engineer

PFacility(i) == w.facility = All \/ df[i].Facility = w.facility

PServiceLine(i) == w.service_line = All \/ df[i].ServiceLine = w.service_line

PAsa(i) == w.asa = AllStr \/ str_contains(df[i].ASAAssigned, w.asa)

PDefect(i) == w.defect_search = <<>> \/ str_contains(df[i].DefectID, w.defect_search)

POpw(i) == w.opw_search = <<>> \/ str_contains(df[i].OPW, w.opw_search)

PIp(i) ==
    \/ w.ip_search = <<>>
    \/ str_contains(df[i].OPW, w.ip_search)
    \/ str_contains(df[i].Comments, w.ip_search)

PCritical(i) == applied.critical => df[i].Status \in {"Overdue", "Attention Needed"}

PWeek(i) ==
    applied.week =>
        /\ notna(df[i].KickOffDate)
        /\ df[i].KickOffDate.v \in today .. (today + 7)

PStatus(i) == w.selected_status = {} \/ df[i].Status \in w.selected_status

PDate(i) ==
    CASE w.date_filter_type = Awaiting -> df[i].KickOffDate = DateV(Sentinel)
      [] w.date_filter_type = RealOnly -> df[i].KickOffDate # DateV(Sentinel)
      [] OTHER -> TRUE

\* the predicates other than the text searches
PNoText(i) ==
    IF InDash
    THEN PState(i) /\ PEngineer(i) /\ PFacility(i) /\ PServiceLine(i) /\ PAsa(i)
    ELSE PState(i) /\ PEngineer(i)

PText(i) == IF InDash THEN PDefect(i) /\ POpw(i) /\ PIp(i) ELSE PDefect(i)

\* the predicates the claim lists
PListed(i) == PNoText(i) /\ PText(i)

\* the predicates the claim does not list
PUnlisted(i) == IF InDash THEN PCritical(i) /\ PWeek(i) ELSE PStatus(i) /\ PDate(i)

PActive(i) == PListed(i) /\ PUnlisted(i)

\* the filters of main applied in the reverse of the code's order
ReverseOrder ==
    LET g0 == [i \in 1 .. Len(df) |-> i]
    IN IF InDash
       THEN LET g1 == ip_filter(df, g0, w.ip_search)
                g2 == opw_filter(df, g1, w.opw_search)
                g3 == asa_filter(df, g2, w.asa)
                g4 == service_line_filter(df, g3, w.service_line)
                g5 == facility_filter(df, g4, w.facility)
                g6 == defect_filter(df, g5, w.defect_search)
                g7 == week_kickoffs_filter(df, g6, applied.week, today)
                g8 == critical_filter(df, g7, applied.critical)
                g9 == engineer_filter(df, g8, w.engineer)
            IN state_filter(df, g9, ms.value)
       ELSE LET g1 == defect_filter(df, g0, w.defect_search)
                g2 == date_filter(df, g1, w.date_filter_type)
                g3 == status_filter(df, g2, w.selected_status)
                g4 == engineer_filter(df, g3, w.engineer)
            IN state_filter(df, g4, ms.value)

literal_search(pat, text) ==
    \E o \in 0 .. (Len(text) - Len(pat)) :
        \A i \in 1 .. Len(pat) : Lower(pat[i]) = Lower(text[o + i])

LiteralIn(x, pat) == notna(x) /\ literal_search(pat, astype_str(x))

PDefectLiteral(i) ==
    w.defect_search = <<>> \/ LiteralIn(df[i].DefectID, w.defect_search)

POpwLiteral(i) == w.opw_search = <<>> \/ LiteralIn(df[i].OPW, w.opw_search)

PIpLiteral(i) ==
    \/ w.ip_search = <<>>
    \/ LiteralIn(df[i].OPW, w.ip_search)
    \/ LiteralIn(df[i].Comments, w.ip_search)

\* C9: a text search of streamlit_app.py keeps a row exactly when the search
\* string occurs, ignoring case, as a literal substring of at least one
\* searched field; a row whose searched fields are all null is never kept.
C9_LiteralSubstring ==
    (InDash /\ raised = "none") =>
        Range(filtered_df) =
            {i \in DOMAIN df :
                /\ PNoText(i) /\ PUnlisted(i)
                /\ PDefectLiteral(i) /\ POpwLiteral(i) /\ PIpLiteral(i)}

\* C10: for every search string, the state filter composed with a text search
\* gives a possibly empty subset of the table, and the search never raises.
C10_SearchNeverRaises ==
    (InDash \/ InComplete) =>
        /\ raised # "re.error"
        /\ Range(filtered_df) \subseteq DOMAIN df

-----------------------------------------------------------------------------
(* Claims about a table that lacks a column (SpecDrift) *)

\* a predicate filters only when the table has its column
Present(name, p) == name \in columns => p

PPresent(i) ==
    /\ PState(i) /\ PDefect(i) /\ PWeek(i)
    /\ Present("Design Engineer", PEngineer(i))
    /\ Present("Facility", PFacility(i))
    /\ Present("Service Line", PServiceLine(i))
    /\ Present("ASA Assigned", PAsa(i))
    /\ Present("OPW", POpw(i))
    /\ Present("OPW", Present("Comments", PIp(i)))
    /\ Present("Status", PCritical(i))

\* C11: when the loaded table lacks a column that a filter predicate reads
\* (Facility, Service Line, ASA Assigned, OPW, Comments, Design Engineer or
\* Status), that predicate keeps every row and the run does not raise: the
\* result is the rows that pass the predicates of the columns that are there.
C11_MissingColumnAcceptsAll ==
    (InDash /\ columns # AllColumns) =>
        /\ raised # "KeyError"
        /\ raised = "none" => Range(filtered_df) = {i \in DOMAIN df : PPresent(i)}

-----------------------------------------------------------------------------
(* Claims about the kickoff-date filter (SpecDash) *)

\* the rows the filters other than the date filter keep
BeforeDateFilter ==
    complete_filters(df, ms.value, [w EXCEPT !.date_filter_type = AllDates]).filtered

DateMode(mode) == Range(date_filter(df, BeforeDateFilter, mode))

OnSentinel == {i \in Range(BeforeDateFilter) : df[i].KickOffDate = DateV(Sentinel)}

\* C12: the kickoff-date filter has three modes: "All dates" keeps every
\* row, "Awaiting kickoff" keeps exactly the rows whose Kick-Off Date is
\* 1900-01-01 and "Real kickoff dates only" exactly the rows whose Kick-Off
\* Date is not; the last two results are disjoint and their union is the
\* first, and the result table is the one of the chosen mode.
C12_DateFilterModes ==
    (InComplete /\ raised = "none") =>
        /\ date_filter(df, BeforeDateFilter, AllDates) = BeforeDateFilter
        /\ DateMode(Awaiting) = OnSentinel
        /\ DateMode(RealOnly) = Range(BeforeDateFilter) \ OnSentinel
        /\ DateMode(Awaiting) \cap DateMode(RealOnly) = {}
        /\ DateMode(Awaiting) \cup DateMode(RealOnly) = DateMode(AllDates)
        /\ Range(filtered_df) = DateMode(w.date_filter_type)

\* "Real kickoff dates only" is chosen on a table with a placeholder row, which
\* it drops, and a row without a kickoff date, which it keeps
C12_Witness ==
    /\ InComplete /\ raised = "none"
    /\ w.date_filter_type = RealOnly
    /\ OnSentinel # {}
    /\ \E i \in Range(filtered_df) : isna(df[i].KickOffDate)

-----------------------------------------------------------------------------
(* Claims about the round trip through the CSV file (SpecCsv) *)

DerivedFields ==
    {"DaysSinceKickoff", "ExpectedDECompletion", "Status", "DaysUntilSLA",
     "DaysToTestingInfoSent", "DaysToCompletion"}

Loaded == pc \in {"loaded", "resaved", "reloaded"}

SameCell(a, b) ==
    IF isna(a) \/ isna(b) THEN isna(a) /\ isna(b) ELSE a.k = b.k /\ a.v = b.v

\* C17: the table written to the CSV file and loaded back by the dashboard,
\* its date columns parsed again, has in every row the derived fields the
\* export computed: the same day counts, the same expected date, the same
\* status, a missing value where one was missing; writing the loaded table
\* and loading it once more changes none of them.
C17_RoundTrip ==
    Loaded =>
        /\ Len(df) = Len(exported)
        /\ \A i \in DOMAIN df : \A c \in DerivedFields :
              SameCell(df[i][c], as_frame(exported)[i][c])

\* the second load of a table with a day count next to a missing one and an
\* expected date
C17_Witness ==
    /\ pc = "reloaded"
    /\ \E i \in DOMAIN df : \E j \in DOMAIN df :
        /\ df[i].DaysSinceKickoff.k = "int"
        /\ df[j].DaysSinceKickoff.k = "nan"
        /\ df[i].ExpectedDECompletion.k = "date"
        /\ df[i].DaysSinceKickoff.v < 0

-----------------------------------------------------------------------------
(* Claims about the SLA compliance rate and the missing file (SpecMain) *)

Shown == pc = "shown"

\* the completed projects of the loaded table
Completed ==
    {i \in DOMAIN df :
        /\ df[i].ProjectState.v \in {<<"Complete">>, <<"Security">>}
        /\ ValidKickoff(df[i].KickOffDate)
        /\ notna(df[i].ActualGoLiveDate)}

\* those that went live in the last days
InPeriod(days) == {i \in Completed : df[i].ActualGoLiveDate.v > today - days}

InMonth(mth) == {i \in Completed : to_period(df[i].ActualGoLiveDate.v) = mth}

\* the days from kickoff to DE Completion Date
DEDuration(i) == Duration(to_datetime(df[i].DECompletionDate), df[i].KickOffDate)

WithDuration(group) == {i \in group : notna(DEDuration(i))}

Within21(group) == {i \in WithDuration(group) : DEDuration(i).v <= 21}

\* 100 * met / valid in tenths of a percent, to the nearest; 0 without records
Percent(met, valid) ==
    IF valid = 0 THEN 0 ELSE (2000 * met + valid) \div (2 * valid)

ComplianceShown(group) ==
    Percent(Cardinality(Within21(group)), Cardinality(WithDuration(group)))

\* C13: the SLA compliance rate shown for the last 6 and the last 12 months
\* is 100 times the number of the period's records with a duration of at most
\* 21 days over the number of its records with a duration; it is 0, with no
\* division by zero, when no record of the period has a duration.
C13_PeriodRate ==
    (Shown /\ page.performance) =>
        /\ page.sla_6m = ComplianceShown(InPeriod(180))
        /\ page.sla_12m = ComplianceShown(InPeriod(365))

\* one record of two is compliant in the last 12 months, the 6 months have no
\* record with a duration
C13_Witness ==
    /\ Shown /\ page.performance
    /\ page.sla_12m = 500
    /\ WithDuration(InPeriod(180)) = {}
    /\ page.sla_6m = 0

\* C14: a period with no qualifying record (rate 0 over 0 records) is
\* reported differently from a period whose records are all non-compliant
\* (rate 0 over one record or more): the two never show the same value.
C14_DenominatorReported ==
    (/\ Shown /\ page.performance
     /\ WithDuration(InPeriod(180)) = {}
     /\ WithDuration(InPeriod(365)) # {}
     /\ Within21(InPeriod(365)) = {})
        => page.sla_6m # page.sla_12m

SameRate(a, b) == a[1] * b[2] = b[1] * a[2]

\* C15: the monthly trend gives, for each go-live month, the rate of the
\* period metric over that month's records: those with a duration of at most
\* 21 days over those with a duration, so that a record without a duration
\* counts on neither side.
C15_MonthlyRate ==
    (Shown /\ page.performance) =>
        \A mth \in DOMAIN page.trend :
            SameRate(page.trend[mth],
                     Rate(Cardinality(Within21(InMonth(mth))),
                          Cardinality(WithDuration(InMonth(mth)))))

\* C18: when neither CSV file can be read, load_project_data gives an empty
\* table, and main shows the no-data error and returns before any filter,
\* metric or chart step; nothing is raised.
C18_NoDataReturns ==
    (Shown /\ \A path \in DOMAIN csv : ~csv[path].exists) =>
        /\ df = <<>>
        /\ page.load_error /\ page.no_data
        /\ page.steps = <<"load_project_data", "no_data">>
        /\ ~page.warning

-----------------------------------------------------------------------------
(* Claims about the effective state (SpecDash) *)

\* two rows with one effective state and one service area are both in the
\* rows or both out of them
Alike(rows, among) ==
    \A i \in among : \A j \in among :
        (/\ effective_state(df[i].ProjectState) = effective_state(df[j].ProjectState)
         /\ df[i].ServiceArea = df[j].ServiceArea)
            => (i \in Range(rows) <=> j \in Range(rows))

\* C16: every place of main that filters, counts or excludes rows by project
\* state treats two rows alike when their states collapse to one effective
\* state (Firewall to Design, Security to Complete): the key metrics, the
\* active projects of the executive summary, the state chart and the CE
\* division chart.
C16_EffectiveStateEverywhere ==
    (InDash /\ raised = "none") =>
        /\ Alike(design_projects(df, filtered_df), Range(filtered_df))
        /\ Alike(firewall_projects(df, filtered_df), Range(filtered_df))
        /\ Alike(testing_projects(df, filtered_df), Range(filtered_df))
        /\ Alike(active_df(df), DOMAIN df)
        /\ Alike(active_states(df), DOMAIN df)
        /\ Alike(ce_active(df), DOMAIN df)

-----------------------------------------------------------------------------
(* Claims about the deployment (SpecDeploy) *)

InDeploy == pc \in Steps \cup {"done"}

\* C19: the deployment runs its steps in the order export, git setup, copy
\* of the files, commit and push, verify; a step starts only after every
\* earlier step has succeeded; after the first failure no later step runs
\* and main returns False.
C19_StepsInOrder ==
    InDeploy =>
        LET n == Len(deploy.started)
        IN /\ deploy.started = SubSeq(StepOrder, 1, n)
           /\ \A k \in 1 .. (n - 1) : deploy.results[k]
           /\ pc # "done" => (n < Len(StepOrder) /\ pc = StepOrder[n + 1])
           /\ (n > 0 /\ ~deploy.results[n]) =>
                 (pc = "done" /\ deploy.returned = "False")
           /\ deploy.returned = "False" => (n > 0 /\ ~deploy.results[n])
           /\ deploy.returned = "True" =>
                 (n = Len(StepOrder) /\ deploy.results[n] /\ pc = "done")

\* the copy of the files fails after the export and the git setup succeeded
C19_Witness ==
    /\ pc = "done"
    /\ deploy.returned = "False"
    /\ deploy.started = SubSeq(StepOrder, 1, 3)
    /\ deploy.results = <<TRUE, TRUE, FALSE>>

\* C20: when the export fails, the deployment stops there: no file is
\* copied, nothing is committed or pushed, also when the latest CSV files of
\* an earlier run are still in exported_data/.
C20_ExportFailureStops ==
    (InDeploy /\ deploy.export_failed) =>
        /\ deploy.started = <<"export_data">>
        /\ deploy.returned = "False"
        /\ deploy.copied = {}
        /\ ~deploy.committed /\ ~deploy.pushed

\* C21: a deployment that reports success has pushed its changes:
\* commit_and_push returns True without a push only when nothing had
\* changed, so main returns True only if the staged files were unchanged or
\* git push ran and succeeded.
C21_SuccessMeansPushed ==
    (InDeploy /\ Len(deploy.started) >= 4 /\ deploy.results[4]) =>
        (~deploy.changed \/ deploy.pushed)

-----------------------------------------------------------------------------
(* Claims about the two deadlines of a Design record (Spec) *)

\* C22: a negative Days Until SLA means overdue: every exported Design
\* record with a Days Until SLA below zero has Status "Overdue", and every
\* Design record with Status "On Track" or "Attention Needed" has a Days
\* Until SLA of zero or more.
C22_NegativeMeansOverdue ==
    \A i \in ExportedRows :
        exported[i].ProjectState = "Design" =>
            /\ (exported[i].DaysUntilSLA.k = "int" /\ exported[i].DaysUntilSLA.v < 0)
                    => exported[i].Status = "Overdue"
            /\ exported[i].Status \in {"On Track", "Attention Needed"}
                    => (exported[i].DaysUntilSLA.k = "int" /\ exported[i].DaysUntilSLA.v >= 0)

-----------------------------------------------------------------------------
(* Claims about the key metrics (SpecMetrics) *)

MetricsShown == pc = "metrics"

\* C26: the "Urgent Design (<3 days)" metric counts exactly the Design rows
\* of the filtered table whose Days Until SLA is non-null and strictly less
\* than 3; a Design row with exactly 3 days left is not counted.
C26_UrgentBelowThree ==
    MetricsShown =>
        page.urgent = Cardinality({n \in DOMAIN filtered_df :
            /\ df[filtered_df[n]].ProjectState = Str(<<"Design">>)
            /\ df[filtered_df[n]].DaysUntilSLA.k = "int"
            /\ df[filtered_df[n]].DaysUntilSLA.v < 3})

-----------------------------------------------------------------------------
(* Claims about a file without the DE Completion Date column (SpecMain) *)

\* C27: calculate_performance_metrics uses only the columns that exist: on
\* a table without the DE Completion Date column it returns, for every
\* Complete or Security row with a valid Kick-Off Date and a go-live date,
\* its Days_to_Testing and Days_to_Completion, and not an empty result.
C27_MissingColumnTolerated ==
    (Shown /\ df # <<>> /\ "DECompletionDate" \notin columns) =>
        LET perf == calculate_performance_metrics(df, columns).rows
        IN /\ page.performance <=> Completed # {}
           /\ Len(perf) = Cardinality(Completed)
           /\ \A i \in Completed : \E n \in DOMAIN perf :
                /\ SameValue(perf[n].Days_to_Testing,
                             Duration(df[i].TestingInfoSent, df[i].KickOffDate))
                /\ SameValue(perf[n].Days_to_Completion,
                             Duration(df[i].ActualGoLiveDate, df[i].KickOffDate))

-----------------------------------------------------------------------------
(* Claims about the session of the dashboard (SpecSession) *)

InSession == pc = "dash"

\* the rows of the loaded table in the states Design and Firewall
DesignAndFirewall == {i \in DOMAIN df : df[i].ProjectState \in {"Design", "Firewall"}}

\* C23: after "Clear All" or "Reset Filters" and the rerun, every filter is
\* at its default: the search boxes are empty, Facility, Service Line, ASA
\* Assigned and Design Engineer are "All", no preset flag is set, the
\* selected states are Design and Firewall, and the table shows exactly the
\* Design and Firewall rows (stated for data that has both states).
C23_ClearRestoresDefaults ==
    [][((ClickClearAll \/ ClickResetFilters)
            /\ {"Design", "Firewall"} \subseteq project_states(df)) =>
        /\ w' = DefaultWidgets
        /\ ~ss'.filter_critical /\ ~ss'.filter_week_kickoffs
        /\ ss'.selected_states = {"Design", "Firewall"}
        /\ ms'.value = {"Design", "Firewall"}
        /\ Range(filtered_df') = DesignAndFirewall]_vars

\* C24: the preset flags are one-shot: the run that follows a click on
\* "Critical/Overdue" or "This Week's Kickoffs" applies the preset, every
\* other run does not, and both flags are False at the end of every run.
C24_PresetOneShot ==
    [][InSession =>
        /\ ~ss'.filter_critical /\ ~ss'.filter_week_kickoffs
        /\ applied'.critical <=> ClickCritical
        /\ applied'.week <=> ClickWeekKickoffs
        /\ applied'.critical =>
              \A n \in DOMAIN filtered_df' :
                  df'[filtered_df'[n]].Status \in {"Overdue", "Attention Needed"}
        /\ applied'.week =>
              \A n \in DOMAIN filtered_df' :
                  /\ df'[filtered_df'[n]].KickOffDate.k = "date"
                  /\ df'[filtered_df'[n]].KickOffDate.v \in today .. (today + 7)]_vars

\* the critical preset has restricted a table that has other Design rows
C24_Witness ==
    /\ InSession
    /\ applied.critical /\ ~ss.filter_critical
    /\ filtered_df # <<>>
    /\ \E i \in DOMAIN df :
        /\ df[i].ProjectState \in ss.selected_states
        /\ i \notin Range(filtered_df)

\* C25: the default of the Project States multiselect is a subset of the
\* states of the loaded data, and is non-empty when the data has a state; a
\* state of the session that the data does not have is never a default.
C25_DefaultWithinData ==
    (InSession /\ ms.exists) =>
        /\ ms.default \subseteq project_states(df)
        /\ project_states(df) # {} => ms.default # {}

\* a button or a reload has left the session with states the data lacks: the
\* default is the first state of the data although it has Design
C25_Witness ==
    /\ InSession
    /\ edits = 1
    /\ ms.exists
    /\ ms.default = {"Complete"}
    /\ "Design" \in project_states(df)

\* the user removes every entry from the Project States multiselect
RemoveEveryState ==
    /\ CanEdit
    /\ w' = w
    /\ Ran(run_script(df, columns, w, [ms EXCEPT !.value = {}], ss, today))

\* C28: when the user removes every entry from the Project States
\* multiselect, no state filter is applied (rows of all states are shown)
\* and the session keeps its last non-empty selection.
C28_EmptySelectionShowsAll ==
    [][RemoveEveryState =>
        /\ ms'.value = {}
        /\ filtered_df' = apply_filters(df, columns, {}, w, ss, today).filtered
        /\ ss'.selected_states = ss.selected_states
        /\ ss'.selected_states # {}]_vars

====
